---- MODULE Spec2Model ----
(***************************************************************************)
(* Model of the repository dependency analyzer (services/repoAnalyzer.ts), *)
(* the /api/analyze middleware (vite.config.ts) and the submit handler of  *)
(* the repository form (components/RepoForm.tsx).                          *)
(*                                                                         *)
(* Strings are modelled so that equality of values is equality of the      *)
(* strings they stand for:                                                 *)
(*   - a file or directory NAME is a sequence of atoms; the stem is one    *)
(*     atom without a dot and an extension is one atom that starts with    *)
(*     the dot: "index.ts" is <<"index", ".ts">>, "." is <<".">>;          *)
(*   - a PATH is a sequence of names ("utils/index.ts" is                  *)
(*     << <<"utils">>, <<"index", ".ts">> >>); the empty path stands for   *)
(*     "." in a relative position and for "/" in an absolute one, and for  *)
(*     the falsy results null / '' of the resolver;                        *)
(*   - a SPECIFIER is a path as written in the import statement; a leading *)
(*     empty name stands for a leading "/".                                *)
(* Importance values are kept in half units (the code adds 0.5 per         *)
(* connection), so all numbers are integers.                               *)
(***************************************************************************)
EXTENDS Integers, Sequences, FiniteSets, TLC

\* ------------------------------------------------------------------ bounds
MaxFiles == 2
MaxStmts == 2

MaxFaults == 2

\* ------------------------------------------------------------- sequences
Front(s) == SubSeq(s, 1, Len(s) - 1)

LastOf(s) == s[Len(s)]

Range(s) == {s[k] : k \in DOMAIN s}

Max2(a, b) == IF a >= b THEN a ELSE b

Min2(a, b) == IF a <= b THEN a ELSE b

\* ------------------------------------------------ strings: case and atoms
\* String.prototype.toLowerCase on one atom.
toLowerCase(atom) ==
  CASE atom = "A" -> "a"
    [] atom = "B" -> "b"
    [] atom = "Index" -> "index"
    [] atom = "Utils" -> "utils"
    [] atom = "Main" -> "main"
    [] atom = ".TS" -> ".ts"
    [] atom = ".JS" -> ".js"
    [] OTHER -> atom

lowerName(name) == [k \in 1..Len(name) |-> toLowerCase(name[k])]

lowerPath(p) == [k \in 1..Len(p) |-> lowerName(p[k])]

\* Atoms that begin with the character '.'.
DotAtoms ==
  {".", "..", ".ts", ".tsx", ".js", ".jsx", ".go", ".py", ".java", ".php", ".rb",
   ".cs", ".cpp", ".h", ".hpp", ".json", ".md", ".css", ".scss", ".html",
   ".TS", ".JS", ".png", ".env", ".git", ".hidden"}

\* s.startsWith('.') for a name.
nameStartsWithDot(name) == Len(name) > 0 /\ name[1] \in DotAtoms

\* path.extname(name): the last extension atom, '' for a name that is only a
\* leading-dot atom (".env") or has no dot.
extname(name) ==
  IF Len(name) >= 2 /\ LastOf(name) \in DotAtoms \ {".", ".."} THEN LastOf(name) ELSE ""

\* ext.slice(1): the extension without its dot.
slice1(ext) ==
  CASE ext = ".ts" -> "ts"     [] ext = ".tsx" -> "tsx"   [] ext = ".js" -> "js"
    [] ext = ".jsx" -> "jsx"   [] ext = ".go" -> "go"     [] ext = ".py" -> "py"
    [] ext = ".java" -> "java" [] ext = ".php" -> "php"   [] ext = ".rb" -> "rb"
    [] ext = ".cs" -> "cs"     [] ext = ".cpp" -> "cpp"   [] ext = ".h" -> "h"
    [] ext = ".hpp" -> "hpp"   [] ext = ".json" -> "json" [] ext = ".md" -> "md"
    [] ext = ".css" -> "css"   [] ext = ".scss" -> "scss" [] ext = ".html" -> "html"
    [] ext = ".TS" -> "TS"     [] ext = ".JS" -> "JS"     [] ext = ".png" -> "png"
    [] OTHER -> ""

\* ------------------------------------------------------------ node's path
\* The temporary clone directory, os.tmpdir() joined with repo-<timestamp>.
tempDir == << <<"tmp">>, <<"repo">> >>

dirname(p) == IF p = <<>> THEN <<>> ELSE Front(p)

basename(p) == IF p = <<>> THEN <<>> ELSE LastOf(p)

\* path.join(dir, name) for a plain name.
pathJoin(dir, name) == Append(dir, name)

\* s + ext on the string of a path: the extension lands on the last name.
appendExt(p, ext) ==
  IF p = <<>> THEN << <<ext>> >> ELSE Append(Front(p), Append(LastOf(p), ext))

RECURSIVE normalizeSegments(_, _)
normalizeSegments(stack, segs) ==
  IF segs = <<>> THEN stack
  ELSE LET s == Head(segs) IN
    IF s = <<>> \/ s = <<".">> THEN normalizeSegments(stack, Tail(segs))
    ELSE IF s = <<"..">>
      THEN normalizeSegments(IF stack = <<>> THEN <<>> ELSE Front(stack), Tail(segs))
      ELSE normalizeSegments(Append(stack, s), Tail(segs))

isAbsolute(spec) == Len(spec) > 0 /\ spec[1] = <<>>

\* path.resolve(dir, p) with dir absolute: the absolute, normalized path.
pathResolve(dir, p) ==
  IF isAbsolute(p) THEN normalizeSegments(<<>>, p) ELSE normalizeSegments(<<>>, dir \o p)

RECURSIVE commonPrefixLen(_, _)
commonPrefixLen(a, b) ==
  IF a = <<>> \/ b = <<>> \/ Head(a) # Head(b) THEN 0
  ELSE 1 + commonPrefixLen(Tail(a), Tail(b))

\* path.relative(from, to), both absolute and normalized.
pathRelative(from, to) ==
  LET c == commonPrefixLen(from, to) IN
    [k \in 1..(Len(from) - c) |-> <<"..">>] \o SubSeq(to, c + 1, Len(to))

\* ------------------------------------------------------------------- Map
\* A JavaScript Map as the sequence of its entries in insertion order.
mapHas(m, k) == \E j \in DOMAIN m : m[j].key = k

mapGet(m, k) == m[CHOOSE j \in DOMAIN m : m[j].key = k].value

mapSet(m, k, v) ==
  IF mapHas(m, k)
    THEN [j \in DOMAIN m |-> IF m[j].key = k THEN [key |-> k, value |-> v] ELSE m[j]]
    ELSE Append(m, [key |-> k, value |-> v])

\* -------------------------------------------------------- extractImports
\* File content is a sequence of import statements, one per line, without a
\* semicolon unless the form says so.  The forms are
\*   "from"    import { x } from 'S'     (patterns 1 and 4 capture S)
\*   "require" require('S')              (pattern 2 captures S)
\*   "side"    import 'S'                (pattern 5: match[1] is 'S' with
\*                                        its quotes, match[2] is S)
\*   "semi"    import "S";               (a line that does end in a semicolon:
\*                                        pattern 5 when S is not empty, and
\*                                        pattern 6, whose match[1] is "S"
\*                                        with its quotes)
\* A statement is [form, spec]; the names it binds are left out, so two equal
\* statements of a content stand for two statements of the file that carry
\* the same specifier.  A capture is [quoted, spec]: the captured text is the
\* specifier, inside its quote characters when quoted.
NumPatterns == 10

patternCapture(p, stmt) ==
  CASE p = 1 /\ stmt.form = "from" -> << [quoted |-> FALSE, spec |-> stmt.spec] >>
    [] p = 2 /\ stmt.form = "require" -> << [quoted |-> FALSE, spec |-> stmt.spec] >>
    [] p = 4 /\ stmt.form = "from" -> << [quoted |-> FALSE, spec |-> stmt.spec] >>
    [] p = 5 /\ stmt.form = "side" -> << [quoted |-> TRUE, spec |-> stmt.spec] >>
    [] p = 5 /\ stmt.form = "semi" /\ stmt.spec # <<>> ->
         << [quoted |-> TRUE, spec |-> stmt.spec] >>
    [] p = 6 /\ stmt.form = "semi" -> << [quoted |-> TRUE, spec |-> stmt.spec] >>
    [] OTHER -> <<>>

\* importPath.includes('node_modules')
includesNodeModules(cap) ==
  \E k \in DOMAIN cap.spec : \E j \in DOMAIN cap.spec[k] : cap.spec[k][j] = "node_modules"

\* importPath.startsWith('http'): a quoted capture starts with its quote.
startsWithHttp(cap) ==
  /\ ~cap.quoted
  /\ Len(cap.spec) > 0
  /\ Len(cap.spec[1]) > 0
  /\ cap.spec[1][1] \in {"http:", "https:"}

\* The truthiness test of the raw capture: '' is falsy.
captureTruthy(cap) == cap.quoted \/ cap.spec # <<>>

\* importPath.replace(/['"]/g, '').trim()
stripQuotes(cap) == cap.spec

\* Set.prototype.add on a Set kept as the sequence of its members in
\* insertion order.
setAddNoDedup(set, x) == Append(set, x)

setAdd(set, x) == IF x \in Range(set) THEN set ELSE Append(set, x)

\* Captures collected in an array instead of the Set of line 42.
addCaptureToArray(imports, cap) ==
  IF captureTruthy(cap) /\ ~includesNodeModules(cap) /\ ~startsWithHttp(cap)
    THEN LET importPath == stripQuotes(cap) IN
      IF importPath # <<>> THEN Append(imports, importPath) ELSE imports
    ELSE imports

\* One capture through the filter of lines 49-53.
addCapture(imports, cap) ==
  IF captureTruthy(cap) /\ ~includesNodeModules(cap) /\ ~startsWithHttp(cap)
    THEN LET importPath == stripQuotes(cap) IN
      IF importPath # <<>> THEN setAdd(imports, importPath) ELSE imports
    ELSE imports

RECURSIVE scanPatterns(_, _, _, _)
scanPatterns(content, p, k, imports) ==
  IF p > NumPatterns THEN imports
  ELSE IF k > Len(content) THEN scanPatterns(content, p + 1, 1, imports)
  ELSE LET caps == patternCapture(p, content[k]) IN
    scanPatterns(content, p, k + 1,
                 IF caps = <<>> THEN imports ELSE addCapture(imports, caps[1]))

extractImports(content) == scanPatterns(content, 1, 1, <<>>)

\* ----------------------------------------------------- fastResolveImport
extensions ==
  <<".ts", ".tsx", ".js", ".jsx", ".go", ".py", ".java", ".php", ".rb", ".cs", ".cpp", ".h">>

\* pathWithExt.toLowerCase().replace(/\\/g, '/'): no name of the model holds
\* a backslash, so the replacement changes nothing.
normalizePath(p) == lowerPath(p)

RECURSIVE exactMatchFrom(_, _, _)
exactMatchFrom(k, relativePath, fileMap) ==
  IF k > Len(extensions) THEN <<>>
  ELSE LET normalizedPath == normalizePath(appendExt(relativePath, extensions[k])) IN
    IF mapHas(fileMap, normalizedPath) THEN mapGet(fileMap, normalizedPath)
    ELSE exactMatchFrom(k + 1, relativePath, fileMap)

RECURSIVE exactMatchLast(_, _, _)
exactMatchLast(k, relativePath, fileMap) ==
  IF k < 1 THEN <<>>
  ELSE LET normalizedPath == normalizePath(appendExt(relativePath, extensions[k])) IN
    IF mapHas(fileMap, normalizedPath) THEN mapGet(fileMap, normalizedPath)
    ELSE exactMatchLast(k - 1, relativePath, fileMap)

\* A loop that keeps the last matching extension instead of returning at the
\* first.
ExactMatchLastWins(relativePath, fileMap) ==
  exactMatchLast(Len(extensions), relativePath, fileMap)

\* Lines 77-83: the first extension of the list for which the lower-cased
\* candidate is a key of the path map.
ExactMatch(relativePath, fileMap) == exactMatchFrom(1, relativePath, fileMap)

indexName(ext) == <<"index", ext>>

RECURSIVE directoryIndexFrom(_, _, _)
directoryIndexFrom(k, targetDir, dirFiles) ==
  IF k > Len(extensions) THEN <<>>
  ELSE LET indexFile == pathJoin(targetDir, indexName(extensions[k])) IN
    IF indexFile \in dirFiles THEN indexFile
    ELSE directoryIndexFrom(k + 1, targetDir, dirFiles)

\* An index lookup that does not test dirFiles.has(indexFile).
DirectoryIndexUnchecked(relativePath, filesByDirectory) ==
  LET targetDir == dirname(relativePath) IN
    IF targetDir \in DOMAIN filesByDirectory
      THEN pathJoin(targetDir, indexName(extensions[1]))
      ELSE <<>>

\* Lines 86-95: the index file of the directory that CONTAINS the candidate
\* (path.dirname(relativePath)), when that directory holds discovered files.
DirectoryIndex(relativePath, filesByDirectory) ==
  LET targetDir == dirname(relativePath) IN
    IF targetDir \in DOMAIN filesByDirectory
      THEN directoryIndexFrom(1, targetDir, filesByDirectory[targetDir])
      ELSE <<>>

RECURSIVE scanKeys(_, _, _)
scanKeys(j, normalizedFilename, fileMap) ==
  IF j > Len(fileMap) THEN <<>>
  ELSE IF basename(fileMap[j].key) = normalizedFilename THEN fileMap[j].value
  ELSE scanKeys(j + 1, normalizedFilename, fileMap)

RECURSIVE basenameFallbackFrom(_, _, _)
basenameFallbackFrom(k, importPath, fileMap) ==
  IF k > Len(extensions) THEN <<>>
  ELSE LET filename == Append(basename(importPath), extensions[k])
           hit == scanKeys(1, lowerName(filename), fileMap) IN
    IF hit # <<>> THEN hit ELSE basenameFallbackFrom(k + 1, importPath, fileMap)

\* Lines 98-110: the first key of the path map, in insertion order, whose
\* file name is the specifier's last name plus an extension.
BasenameFallback(importPath, fileMap) == basenameFallbackFrom(1, importPath, fileMap)

\* The candidate path of lines 69-71, relative to the clone directory.
candidatePath(sourceFile, importPath, tmp) ==
  pathRelative(tmp, pathResolve(dirname(sourceFile), importPath))

fastResolveImport(sourceFile, importPath, tmp, fileMap, filesByDirectory) ==
  LET relativePath == candidatePath(sourceFile, importPath, tmp)
      exact == ExactMatch(relativePath, fileMap)
      index == DirectoryIndex(relativePath, filesByDirectory)
  IN IF exact # <<>> THEN exact
     ELSE IF index # <<>> THEN index
     ELSE BasenameFallback(importPath, fileMap)

\* ---------------------------------------------------------- getAllFiles
skipDirs ==
  { <<".git">>, <<"node_modules">>, <<".next">>, <<"dist">>, <<"build">>,
    <<".vscode">>, <<".idea">>, <<"coverage">> }

relevantExtensions ==
  {".ts", ".tsx", ".js", ".jsx", ".go", ".py", ".java", ".php", ".rb", ".cs", ".cpp",
   ".h", ".hpp", ".json", ".md", ".css", ".scss", ".html"}

hiddenEntryEveryDot(name) == nameStartsWithDot(name)

\* Line 280: the entry is skipped.
hiddenEntry(name) == nameStartsWithDot(name) /\ name # <<".env">>

\* The file at relative path rel is pushed by traverse: every directory on
\* the way is entered and the file passes the extension filter.
isDiscovered(rel) ==
  /\ \A k \in 1..(Len(rel) - 1) : ~hiddenEntry(rel[k]) /\ rel[k] \notin skipDirs
  /\ ~hiddenEntry(LastOf(rel))
  /\ toLowerCase(extname(LastOf(rel))) \in relevantExtensions

\* --------------------------------------------------------------- inputs
aTs == << <<"a", ".ts">> >>

bTs == << <<"b", ".ts">> >>

bJs == << <<"b", ".js">> >>

indexTs == << <<"index", ".ts">> >>

utilsIndexTs == << <<"utils">>, <<"index", ".ts">> >>

logoPng == << <<"logo", ".png">> >>

\* The files a cloned repository may hold, by path below its root.
FileUniverse == {aTs, bTs, bJs, indexTs, utilsIndexTs, logoPng}

dotB == << <<".">>, <<"b">> >>

dotUpperB == << <<".">>, <<"B">> >>

dotDotB == << <<"..">>, <<"b">> >>

dotUtils == << <<".">>, <<"utils">> >>

\* The import statements a file may hold.
StmtUniverse ==
  { [form |-> "from", spec |-> dotB],
    [form |-> "from", spec |-> dotUpperB],
    [form |-> "side", spec |-> dotDotB],
    [form |-> "from", spec |-> dotUtils] }

FileSets == {F \in SUBSET FileUniverse : Cardinality(F) <= MaxFiles}

\* Statements sit in the text files of the repository.
Placements(F) ==
  UNION {[1..n -> (F \ {logoPng}) \X StmtUniverse] : n \in 0..MaxStmts}

RECURSIVE placedOn(_, _)
placedOn(pl, f) ==
  IF pl = <<>> THEN <<>>
  ELSE IF Head(pl)[1] = f THEN <<Head(pl)[2]>> \o placedOn(Tail(pl), f)
  ELSE placedOn(Tail(pl), f)

\* A repository: a function from the paths of its files to their contents.
Trees == UNION {{[f \in F |-> placedOn(pl, f)] : pl \in Placements(F)} : F \in FileSets}

\* A repository that exercises the I/O of the analysis: a bare specifier next
\* to a file of its name, and two sibling directories.
reactTs == << <<"react", ".ts">> >>

xCTs == << <<"x">>, <<"c", ".ts">> >>

yDTs == << <<"y">>, <<"d", ".ts">> >>

IoFileUniverse == {aTs, reactTs, xCTs, yDTs}

bareReact == << <<"react">> >>

dotA == << <<".">>, <<"a">> >>

\* What a file of that repository may hold.
IoContents ==
  { <<>>,
    << [form |-> "from", spec |-> bareReact] >>,
    << [form |-> "from", spec |-> dotA] >>,
    << [form |-> "from", spec |-> bareReact], [form |-> "from", spec |-> dotA] >> }

IoTrees ==
  UNION {[F -> IoContents] : F \in {G \in SUBSET IoFileUniverse : Cardinality(G) <= MaxFiles}}

\* A repository with one file more than the smallest batch (line 187) holds.
wideNames ==
  << <<"f01", ".ts">>, <<"f02", ".ts">>, <<"f03", ".ts">>, <<"f04", ".ts">>,
     <<"f05", ".ts">>, <<"f06", ".ts">>, <<"f07", ".ts">>, <<"f08", ".ts">>,
     <<"f09", ".ts">>, <<"f10", ".ts">>, <<"f11", ".ts">> >>

dotF01 == << <<".">>, <<"f01">> >>

dotF02 == << <<".">>, <<"f02">> >>

\* The first two files may import each other.
WideTrees ==
  { [f \in {<<wideNames[k]>> : k \in DOMAIN wideNames} |->
       IF f = <<wideNames[1]>> THEN first
       ELSE IF f = <<wideNames[2]>> THEN second
       ELSE <<>>] :
    first \in { <<>>, << [form |-> "from", spec |-> dotF02] >> },
    second \in { <<>>, << [form |-> "from", spec |-> dotF01] >> } }

\* A repository whose two top-level directories hold more directories than
\* one batch of traverse (line 275) between them, a file without allow-listed
\* extension in each.
leafNames ==
  << <<"d01">>, <<"d02">>, <<"d03">>, <<"d04">>, <<"d05">>, <<"d06">>, <<"d07">>,
     <<"d08">>, <<"d09">>, <<"d10">>, <<"d11">>, <<"d12">>, <<"d13">>, <<"d14">>,
     <<"d15">>, <<"d16">>, <<"d17">>, <<"d18">>, <<"d19">>, <<"d20">>, <<"d21">>,
     <<"d22">>, <<"d23">>, <<"d24">>, <<"d25">>, <<"d26">> >>

fanTree ==
  [f \in {<< top, leafNames[k], <<"logo", ".png">> >> :
            top \in {<<"p">>, <<"q">>}, k \in DOMAIN leafNames} |-> <<>>]

\* a.ts holds import { b } from './b' and b.ts is empty.
scenarioA == (aTs :> << [form |-> "from", spec |-> dotB] >>) @@ (bTs :> <<>>)

FanTrees == {fanTree, scenarioA}

\* A repository that exercises names: letter case, extensions written in the
\* specifier, hidden and skipped entries, specifiers the filter is to drop.
mainTS == << <<"Main", ".TS">> >>

upperBTs == << <<"B", ".ts">> >>

stylesCss == << <<"styles", ".css">> >>

hiddenTs == << <<".hidden", ".ts">> >>

envDirTs == << <<".env">>, <<"e", ".ts">> >>

gitDirTs == << <<".git">>, <<"g", ".ts">> >>

nodeModulesTs == << <<"node_modules">>, <<"m", ".ts">> >>

srcDistJs == << <<"src">>, <<"dist">>, <<"o", ".js">> >>

NameFileUniverse ==
  {aTs, bTs, upperBTs, indexTs, mainTS, stylesCss, logoPng, hiddenTs, envDirTs, gitDirTs,
   nodeModulesTs, srcDistJs}

dotBTs == << <<".">>, <<"b", ".ts">> >>

dotStylesCss == << <<".">>, <<"styles", ".css">> >>

httpCdn == << <<"http:">>, <<>>, <<"cdn">>, <<"x">> >>

nodeModulesX == << <<"node_modules">>, <<"x">> >>

\* What a.ts of that repository may hold.
NameContents ==
  { <<>>,
    << [form |-> "from", spec |-> dotBTs] >>,
    << [form |-> "from", spec |-> dotStylesCss] >>,
    << [form |-> "from", spec |-> dotB] >>,
    << [form |-> "side", spec |-> httpCdn] >>,
    << [form |-> "from", spec |-> httpCdn] >>,
    << [form |-> "semi", spec |-> nodeModulesX] >>,
    << [form |-> "semi", spec |-> <<>>] >> }

NameTrees ==
  UNION { { [f \in F |-> IF f = aTs THEN body ELSE <<>>] : body \in NameContents } :
          F \in {G \in SUBSET NameFileUniverse : Cardinality(G) <= MaxFiles} }

\* The repositories behind the URL when the claim is about the form: one that
\* gives a graph and one without a relevant file.
FetchTrees == {scenarioA, [f \in {logoPng} |-> <<>>]}

\* The repositories a run may clone, by the kind of run.
TreesOf(world) ==
  CASE world = "base" -> Trees
    [] world = "io" -> IoTrees
    [] world = "wide" -> WideTrees
    [] world = "fan" -> FanTrees
    [] world = "names" -> NameTrees
    [] world = "fetch" -> FetchTrees

\* The directories of a tree, by path below its root (<<>> is the root).
directoriesOf(tree) ==
  UNION {{SubSeq(f, 1, n) : n \in 0..(Len(f) - 1)} : f \in DOMAIN tree} \cup {<<>>}

\* The paths whose readFile or readdir fails: none in a plain run, at most
\* MaxFaults files and directories in a run that exercises the I/O.
FaultsOf(world, tree) ==
  CASE world = "io" ->
         {B \in SUBSET (DOMAIN tree \cup directoriesOf(tree)) : Cardinality(B) <= MaxFaults}
    [] world = "names" ->
         {B \in SUBSET directoriesOf(tree) : Cardinality(B) <= MaxFaults}
    [] OTHER -> {{}}

\* fs.readdir lists entries in the order of the file system: by name, or the
\* other way round.
listingOrder ==
  << <<".env">>, <<".git">>, <<".hidden", ".ts">>, <<"B", ".ts">>, <<"Main", ".TS">>,
     <<"a", ".ts">>, <<"b", ".js">>, <<"b", ".ts">>, <<"c", ".ts">>, <<"d", ".ts">> >>
    \o leafNames \o
  << <<"dist">>, <<"e", ".ts">> >>
    \o wideNames \o
  << <<"g", ".ts">>, <<"index", ".ts">>, <<"logo", ".png">>, <<"m", ".ts">>,
     <<"node_modules">>, <<"o", ".js">>, <<"p">>, <<"q">>, <<"react", ".ts">>, <<"src">>,
     <<"styles", ".css">>, <<"utils">>, <<"x">>, <<"y">> >>

reverse(s) == [k \in 1..Len(s) |-> s[Len(s) + 1 - k]]

\* The names of the entries of directory d.
entryNames(tree, d) ==
  {f[Len(d) + 1] : f \in {g \in DOMAIN tree : Len(g) > Len(d) /\ SubSeq(g, 1, Len(d)) = d}}

\* What fs.readdir(d) resolves with.
readdir(tree, reversed, d) ==
  LET listed == SelectSeq(listingOrder, LAMBDA n : n \in entryNames(tree, d)) IN
    IF reversed THEN reverse(listed) ELSE listed

\* entry.isDirectory()
isDirectoryEntry(tree, d, name) ==
  \E g \in DOMAIN tree : Len(g) > Len(d) + 1 /\ SubSeq(g, 1, Len(d) + 1) = d \o <<name>>

\* A read whose failure is not noticed.
readFileIgnoringFailure(tree, unread, rel) == tree[rel]

\* What fs.readFile resolves with after .catch(() => '').
readFile(tree, unread, rel) == IF rel \in unread THEN <<>> ELSE tree[rel]

\* Line 275.
traverseBatchSize == 50

\* entries.slice(i, i + batchSize)
batchOf(entries, i0) == SubSeq(entries, i0 + 1, Min2(i0 + traverseBatchSize, Len(entries)))

\* Lines 280-295 for the entries of one batch of directory d: the files
\* pushed, in the order of the entries.
pushedBy(tree, d, batch) ==
  LET keep(name) ==
        /\ ~hiddenEntry(name)
        /\ ~isDirectoryEntry(tree, d, name)
        /\ toLowerCase(extname(name)) \in relevantExtensions
      kept == SelectSeq(batch, keep)
  IN [k \in DOMAIN kept |-> pathJoin(tempDir \o d, kept[k])]

\* Lines 286-289: the directories whose traversal the batch starts.
enteredBy(tree, d, batch) ==
  {d \o <<batch[k]>> : k \in {j \in DOMAIN batch :
                                 /\ ~hiddenEntry(batch[j])
                                 /\ isDirectoryEntry(tree, d, batch[j])
                                 /\ batch[j] \notin skipDirs}}

validUrl == <<"https://", "github.com", "/", "owner", "/", "repo">>

\* The values of the repoUrl field: absent, or a string as its tokens.
RepoUrls ==
  {[present |-> FALSE, text |-> <<>>]} \cup
  {[present |-> TRUE, text |-> t] : t \in
     { validUrl,
       <<>>,
       <<" ">>,
       <<"not-a-url">>,
       <<"http://", "github.com", "/", "owner", "/", "repo">>,
       <<"https://", "gitlab.com", "/", "owner", "/", "repo">>,
       <<"https://", "github.com", "/", "owner">> }}

\* The bodies a POST may carry: unparsable text, or a JSON object.
Bodies ==
  {[json |-> FALSE, repoUrl |-> [present |-> FALSE, text |-> <<>>]]} \cup
  {[json |-> TRUE, repoUrl |-> u] : u \in RepoUrls}

\* ---------------------------------------------------- analyzeRepository
RECURSIVE trimLeft(_)
trimLeft(t) == IF t # <<>> /\ Head(t) = " " THEN trimLeft(Tail(t)) ELSE t

RECURSIVE trimRight(_)
trimRight(t) == IF t # <<>> /\ LastOf(t) = " " THEN trimRight(Front(t)) ELSE t

trim(t) == trimRight(trimLeft(t))

\* cleanUrl.match(/^https:\/\/github\.com\/[^/]+\/[^/]+/)
matchesGitHub(cleanUrl) ==
  /\ Len(cleanUrl) >= 6
  /\ cleanUrl[1] = "https://"
  /\ cleanUrl[2] = "github.com"
  /\ cleanUrl[3] = "/"
  /\ cleanUrl[4] # "/"
  /\ cleanUrl[5] = "/"
  /\ cleanUrl[6] # "/"

\* !repoUrl of the middleware: undefined and '' are falsy.
falsy(repoUrl) == ~repoUrl.present \/ repoUrl.text = <<>>

absolute(rel) == tempDir \o rel

relativeTo(file) == pathRelative(tempDir, file)

RECURSIVE buildFileMapFrom(_, _)
buildFileMapFrom(fs, m) ==
  IF fs = <<>> THEN m
  ELSE LET relativePath == relativeTo(Head(fs)) IN
    buildFileMapFrom(Tail(fs), mapSet(m, normalizePath(relativePath), relativePath))

buildFileMap(fs) == buildFileMapFrom(fs, <<>>)

buildFilesByDirectory(fs) ==
  LET rels == {relativeTo(fs[k]) : k \in DOMAIN fs} IN
    [d \in {dirname(r) : r \in rels} |-> {r \in rels : dirname(r) = d}]

getFileTypeImportance(type) ==
  CASE type = "json" -> 8
    [] type \in {"js", "ts", "tsx", "jsx", "go", "py", "java", "cpp", "c", "rs"} -> 7
    [] type \in {"md", "html", "h", "hpp", "php", "rb", "cs"} -> 6
    [] type \in {"css", "scss"} -> 5
    [] OTHER -> 3

\* typeImportance + connections * 0.5, in half units.
importanceFullPerConnection(typeImportance, connections) ==
  2 * typeImportance + 2 * connections

importanceOf(typeImportance, connections) == 2 * typeImportance + connections

\* content.split('\n').length
lineCount(content) == Max2(1, Len(content))

nodeType(file) ==
  LET t == slice1(extname(basename(file))) IN IF t = "" THEN "other" ELSE t

buildNode(file, content) ==
  LET relativePath == relativeTo(file)
      directory == dirname(relativePath) IN
    [ id |-> relativePath,
      label |-> basename(file),
      type |-> nodeType(file),
      size |-> Max2(1, lineCount(content) \div 10),
      lines |-> lineCount(content),
      directory |-> IF directory = <<>> THEN << <<"root">> >> ELSE directory,
      importance |-> 2 ]

\* Math.min(100, Math.max(10, Math.floor(n / 10)))
batchSizeFor(n) == Min2(100, Max2(10, n \div 10))

\* connectionCounts.get(id) || 0
countOf(cc, id) == IF id \in DOMAIN cc THEN cc[id] ELSE 0

\* A write of the count that drops the value read.
bumpLost(cc, id) == [x \in DOMAIN cc \cup {id} |-> IF x = id THEN 1 ELSE cc[x]]

\* connectionCounts.set(id, (connectionCounts.get(id) || 0) + 1)
bump(cc, id) ==
  [x \in DOMAIN cc \cup {id} |-> IF x = id THEN countOf(cc, id) + 1 ELSE cc[x]]

\* A test of line 202 that lets every specifier through.
isRelativeSpecifierAny(importPath) == TRUE

\* importPath.startsWith('.') || importPath.startsWith('/')
isRelativeSpecifier(importPath) ==
  isAbsolute(importPath) \/ (Len(importPath) > 0 /\ nameStartsWithDot(importPath[1]))

shouldEmitNoSelfTest(resolvedTarget, relativePath) == resolvedTarget # <<>>

\* Line 212: resolvedTarget && resolvedTarget !== relativePath
shouldEmit(resolvedTarget, relativePath) ==
  resolvedTarget # <<>> /\ resolvedTarget # relativePath

\* A per-file task runs from the head of the import list to its next await:
\* it skips the specifiers that are not relative and suspends on the
\* resolution of the first relative one, or finishes.
RECURSIVE runToAwait(_, _, _, _)
runToAwait(file, imports, fm, fbd) ==
  IF imports = <<>>
    THEN [pc |-> "done", importPath |-> <<>>, resolvedTarget |-> <<>>, rest |-> <<>>]
  ELSE IF isRelativeSpecifier(Head(imports))
    THEN [ pc |-> "await",
           importPath |-> Head(imports),
           resolvedTarget |-> fastResolveImport(file, Head(imports), tempDir, fm, fbd),
           rest |-> Tail(imports) ]
    ELSE runToAwait(file, Tail(imports), fm, fbd)

\* ------------------------------------------------------------ RepoForm
noResponse == [status |-> 0, error |-> "", hasGraph |-> FALSE, nodes |-> <<>>, edges |-> <<>>]

errorResponse(status, message) ==
  [status |-> status, error |-> message, hasGraph |-> FALSE, nodes |-> <<>>, edges |-> <<>>]

graphResponse(graph) ==
  [status |-> 200, error |-> "", hasGraph |-> TRUE, nodes |-> graph.nodes, edges |-> graph.edges]

\* response.ok
responseOk(r) == r.status >= 200 /\ r.status <= 299

\* A submit handler without the test of lines 40-42.
submitErrorNoEmptyTest(r) ==
  IF ~responseOk(r)
    THEN IF r.error # "" THEN r.error ELSE "Failed to analyze repository"
  ELSE IF ~r.hasGraph THEN "Invalid response from server"
  ELSE ""

\* Lines 32-42 of handleSubmit: the message of the Error thrown for the
\* response, "" when none is thrown.
submitError(r) ==
  IF ~responseOk(r)
    THEN IF r.error # "" THEN r.error ELSE "Failed to analyze repository"
  ELSE IF ~r.hasGraph THEN "Invalid response from server"
  ELSE IF Len(r.nodes) = 0 THEN "No relevant files found in the repository"
  ELSE ""

\* What the awaits of lines 24-32 give handleSubmit: rejected is the message
\* of the Error with which fetch or response.json() rejected, "" when both
\* resolved, and body is then the status and the parsed body.
asSent(r) == [rejected |-> "", body |-> r]

\* fetch rejects: the server was not reached.
networkError == [rejected |-> "Failed to fetch", body |-> noResponse]

\* response.json() rejects: the body is not JSON.
nonJsonBody == [rejected |-> "Unexpected token < in JSON", body |-> noResponse]

\* What handleSubmit may receive when the middleware has answered r: the
\* answer, or, with something else between the page and the middleware, a
\* failed fetch, a body that is not JSON, an error status without an error
\* field, a success status without a graph.
FetchOutcomes(world, r) ==
  IF world = "fetch"
    THEN {asSent(r), networkError, nonJsonBody, asSent(errorResponse(502, "")),
          asSent([noResponse EXCEPT !.status = 200])}
    ELSE {asSent(r)}

\* Lines 24-42 of handleSubmit: the message of the Error the try block
\* throws, "" when it throws none.
receiveError(d) == IF d.rejected # "" THEN d.rejected ELSE submitError(d.body)

\* Lines 52-54: the message shown for a thrown Error.
errorMessageOf(message) ==
  <<"Error: ", message, ". Please check the repository URL and try again.">>

\* How many calls of analyzeRepository the server has in flight side by side,
\* and how far its clock runs.
MaxCalls == 2

MaxClock == 2

Callers == 1..MaxCalls

\* ---------------------------------------------------------------- state
VARIABLES
  pc,               \* where the request is: form, middleware, analyzeRepository
  world,            \* the kind of repository the run clones
  now,              \* Date.now() of the server
  calls,            \* the calls of analyzeRepository made side by side
  disk,             \* os.tmpdir(): its repo-<n> directories and what they hold
  request,          \* the body of the POST
  response,         \* what the middleware answered
  resEnds,          \* how many times res.end was called
  isLoading,        \* RepoForm state
  formError,        \* RepoForm state: the message shown, <<>> for null
  onAnalyzeCalls,   \* the graphs passed to onAnalyze
  onErrorCalls,     \* the messages passed to onError
  delivered,        \* what fetch and response.json() gave handleSubmit
  remote,           \* the repository behind the URL
  unreadable,       \* the paths of the clone whose readFile or readdir fails
  reversedListing,  \* the order in which the file system lists entries
  dirCreated,       \* fs.mkdir(tempDir) has succeeded
  dirExists,        \* tempDir is on disk
  rmCalls,          \* how many times fs.rm(tempDir) was awaited
  thrown,           \* the message of the error analyzeRepository is failing with
  traversals,       \* the running calls of traverse, by directory
  files,            \* const files
  fileMap,          \* const fileMap
  filesByDirectory, \* const filesByDirectory
  fileContents,     \* const fileContents
  pendingReads,     \* the indexes in files of the reads in flight
  readSlots,        \* the values Promise.all of line 163 has collected
  nodes,            \* const nodes
  edges,            \* const edges
  connectionCounts, \* const connectionCounts
  batchSize,        \* const batchSize
  i,                \* the loop variable of the batch loop
  tasks             \* the per-file tasks of the running batch, by index in files

vars ==
  << pc, world, now, calls, disk, request, response, resEnds, isLoading, formError, onAnalyzeCalls,
     onErrorCalls, delivered, remote, unreadable, reversedListing, dirCreated, dirExists, rmCalls,
     thrown, traversals, files, fileMap, filesByDirectory, fileContents, pendingReads,
     readSlots, nodes, edges, connectionCounts, batchSize, i, tasks >>

hostVars == << world, now, calls, disk >>

formVars == << isLoading, formError, onAnalyzeCalls, onErrorCalls, delivered >>

diskVars == << remote, unreadable, reversedListing, dirCreated, dirExists, rmCalls >>

graphVars ==
  << traversals, files, fileMap, filesByDirectory, fileContents, pendingReads, readSlots,
     nodes, edges, connectionCounts, batchSize, i, tasks >>

\* The page is loaded and no request has been made; w is the kind of
\* repository the run will clone.
Boot(w) ==
  /\ pc = "idle"
  /\ world = w
  /\ now = 1
  /\ calls = [c \in Callers |-> [pc |-> "idle", tempDir |-> 0, outcome |-> ""]]
  /\ disk = <<>>
  /\ request = [json |-> FALSE, repoUrl |-> [present |-> FALSE, text |-> <<>>]]
  /\ response = noResponse
  /\ resEnds = 0
  /\ isLoading = FALSE
  /\ formError = <<>>
  /\ onAnalyzeCalls = <<>>
  /\ onErrorCalls = <<>>
  /\ delivered = asSent(noResponse)
  /\ remote = <<>>
  /\ unreadable = {}
  /\ reversedListing = FALSE
  /\ dirCreated = FALSE
  /\ dirExists = FALSE
  /\ rmCalls = 0
  /\ thrown = ""
  /\ traversals = <<>>
  /\ files = <<>>
  /\ fileMap = <<>>
  /\ filesByDirectory = <<>>
  /\ fileContents = <<>>
  /\ pendingReads = {}
  /\ readSlots = <<>>
  /\ nodes = <<>>
  /\ edges = <<>>
  /\ connectionCounts = <<>>
  /\ batchSize = 0
  /\ i = 0
  /\ tasks = <<>>

Init == Boot("base")

InitIO == Boot("io")

InitWide == Boot("wide")

InitFan == Boot("fan")

InitNames == Boot("names")

InitFetch == Boot("fetch")

\* handleSubmit up to the fetch: the POST leaves with its body.
Submit ==
  /\ pc = "idle"
  /\ \E body \in Bodies : request' = body
  /\ isLoading' = TRUE
  /\ formError' = <<>>
  /\ pc' = "requested"
  /\ UNCHANGED << hostVars, response, resEnds, onAnalyzeCalls, onErrorCalls, delivered,
                  diskVars, thrown, graphVars >>

\* The 'end' handler of the middleware up to its answer or to the first await
\* inside analyzeRepository.
HandleRequest ==
  /\ pc = "requested"
  /\ IF ~request.json
       THEN /\ response' = errorResponse(500, "Unexpected token in JSON")
            /\ resEnds' = resEnds + 1
            /\ pc' = "responded"
            /\ thrown' = thrown
     ELSE IF falsy(request.repoUrl)
       THEN /\ response' = errorResponse(400, "Repository URL is required")
            /\ resEnds' = resEnds + 1
            /\ pc' = "responded"
            /\ thrown' = thrown
     ELSE IF ~matchesGitHub(trim(request.repoUrl.text))
       THEN /\ thrown' = "Invalid GitHub repository URL"
            /\ response' = errorResponse(500, "Invalid GitHub repository URL")
            /\ resEnds' = resEnds + 1
            /\ pc' = "responded"
     ELSE /\ pc' = "mkdir"
          /\ UNCHANGED << response, resEnds, thrown >>
  /\ UNCHANGED << hostVars, request, formVars, diskVars, graphVars >>

\* Line 124, outside the try block.
MkdirOk ==
  /\ pc = "mkdir"
  /\ dirCreated' = TRUE
  /\ dirExists' = TRUE
  /\ pc' = "clone"
  /\ UNCHANGED << hostVars, request, response, resEnds, formVars, remote, unreadable,
                  reversedListing, rmCalls, thrown, graphVars >>

MkdirFails ==
  /\ pc = "mkdir"
  /\ thrown' = "mkdir failed"
  /\ response' = errorResponse(500, "mkdir failed")
  /\ resEnds' = resEnds + 1
  /\ pc' = "responded"
  /\ UNCHANGED << hostVars, request, formVars, diskVars, graphVars >>

\* Line 129: the clone materializes the repository in tempDir, on a file
\* system that lists entries in its own order and may fail to read some paths.
CloneOk ==
  /\ pc = "clone"
  /\ \E tree \in TreesOf(world) :
       /\ remote' = tree
       /\ \E unread \in FaultsOf(world, tree) : unreadable' = unread
  /\ \E reversed \in BOOLEAN : reversedListing' = reversed
  /\ pc' = "discover"
  /\ UNCHANGED << hostVars, request, response, resEnds, formVars, dirCreated, dirExists,
                  rmCalls, thrown, graphVars >>

CloneFailsNoFinally ==
  /\ pc = "clone"
  /\ thrown' = "clone failed"
  /\ pc' = "settled"
  /\ UNCHANGED << hostVars, request, response, resEnds, formVars, diskVars, graphVars >>

\* Line 129 throws: control passes to the finally block.
CloneFails ==
  /\ pc = "clone"
  /\ thrown' = "clone failed"
  /\ pc' = "finally"
  /\ UNCHANGED << hostVars, request, response, resEnds, formVars, diskVars, graphVars >>

\* Lines 132 and 300: getAllFiles calls traverse(dir), which runs to its
\* readdir.
Discover ==
  /\ pc = "discover"
  /\ traversals' = (<<>> :> [pc |-> "readdir", entries |-> <<>>, i |-> 0])
  /\ files' = <<>>
  /\ pc' = "traverse"
  /\ UNCHANGED << hostVars, request, response, resEnds, formVars, diskVars, thrown, fileMap,
                  filesByDirectory, fileContents, pendingReads, readSlots, nodes, edges,
                  connectionCounts, batchSize, i, tasks >>

\* Lines 276-297 from the head of the loop, for traverse(d) with its entries
\* and loop variable: the batch pushes its files and starts the traversal of
\* its directories, each running to its readdir, and traverse awaits them;
\* past the last batch traverse returns, and with it getAllFiles when d is the
\* directory it was called for.
continueTraverse(d, entries, i0) ==
  IF i0 < Len(entries)
    THEN LET batch == batchOf(entries, i0)
             entered == enteredBy(remote, d, batch) IN
           /\ files' = files \o pushedBy(remote, d, batch)
           /\ traversals' =
                [x \in DOMAIN traversals \cup entered |->
                   IF x = d THEN [pc |-> "batch", entries |-> entries, i |-> i0]
                   ELSE IF x \in entered THEN [pc |-> "readdir", entries |-> <<>>, i |-> 0]
                   ELSE traversals[x]]
           /\ pc' = pc
    ELSE /\ files' = files
         /\ traversals' = [x \in DOMAIN traversals \ {d} |-> traversals[x]]
         /\ pc' = IF d = <<>> THEN "index" ELSE pc

\* The listings in flight.
pendingListings == {d \in DOMAIN traversals : traversals[d].pc = "readdir"}

\* The traversals whose running batch has nothing left to await.
readyBatches ==
  {d \in DOMAIN traversals :
     /\ traversals[d].pc = "batch"
     /\ \A c \in enteredBy(remote, d, batchOf(traversals[d].entries, traversals[d].i)) :
          c \notin DOMAIN traversals}

nameRank(name) == CHOOSE k \in DOMAIN listingOrder : listingOrder[k] = name

RECURSIVE pathBefore(_, _)
pathBefore(d, e) ==
  IF Len(d) # Len(e) THEN Len(d) < Len(e)
  ELSE IF Len(d) = 0 THEN TRUE
  ELSE IF Head(d) # Head(e) THEN nameRank(Head(d)) < nameRank(Head(e))
  ELSE pathBefore(Tail(d), Tail(e))

\* The order in which the event loop serves settled operations is free,
\* except in a run on the large tree, which follows one schedule: listings
\* settle in the order of their paths, and a batch of traverse resumes once no
\* listing is in flight.
mayList(d) == world = "fan" => \A e \in pendingListings : pathBefore(d, e)

mayResume(d) ==
  world = "fan" => (pendingListings = {} /\ \A e \in readyBatches : pathBefore(d, e))

\* Lines 267-272: the readdir of traverse(d) settles; a failure ends the
\* traversal of d without an error.
Readdir(d) ==
  /\ pc = "traverse"
  /\ d \in DOMAIN traversals
  /\ traversals[d].pc = "readdir"
  /\ mayList(d)
  /\ IF d \in unreadable
       THEN continueTraverse(d, <<>>, 0)
       ELSE continueTraverse(d, readdir(remote, reversedListing, d), 0)
  /\ UNCHANGED << hostVars, request, response, resEnds, formVars, diskVars, thrown, fileMap,
                  filesByDirectory, fileContents, pendingReads, readSlots, nodes, edges,
                  connectionCounts, batchSize, i, tasks >>

\* A batch that does not await the traversals it started.
TraverseBatchDoneNoAwait(d) ==
  /\ pc = "traverse"
  /\ d \in DOMAIN traversals
  /\ traversals[d].pc = "batch"
  /\ mayResume(d)
  /\ continueTraverse(d, traversals[d].entries, traversals[d].i + traverseBatchSize)
  /\ UNCHANGED << hostVars, request, response, resEnds, formVars, diskVars, thrown, fileMap,
                  filesByDirectory, fileContents, pendingReads, readSlots, nodes, edges,
                  connectionCounts, batchSize, i, tasks >>

\* Line 279: Promise.all of the running batch of traverse(d) resolves once
\* the traversals the batch started have returned.
TraverseBatchDone(d) ==
  /\ pc = "traverse"
  /\ d \in DOMAIN traversals
  /\ d \in readyBatches
  /\ mayResume(d)
  /\ continueTraverse(d, traversals[d].entries, traversals[d].i + traverseBatchSize)
  /\ UNCHANGED << hostVars, request, response, resEnds, formVars, diskVars, thrown, fileMap,
                  filesByDirectory, fileContents, pendingReads, readSlots, nodes, edges,
                  connectionCounts, batchSize, i, tasks >>

\* Lines 136-163: the lookup maps are built and files.map starts the task of
\* every file, each running to its readFile.
BuildIndex ==
  /\ pc = "index"
  /\ fileMap' = buildFileMap(files)
  /\ filesByDirectory' = buildFilesByDirectory(files)
  /\ fileContents' = <<>>
  /\ pendingReads' = DOMAIN files
  /\ readSlots' = <<>>
  /\ pc' = "read"
  /\ UNCHANGED << hostVars, request, response, resEnds, formVars, diskVars, thrown,
                  traversals, files, nodes, edges, connectionCounts, batchSize, i, tasks >>

\* Values collected in the order in which the promises settle.
resultSlotByCompletion(k, slots) == Cardinality(DOMAIN slots) + 1

\* Promise.all keeps the value of the k-th promise at position k.
resultSlot(k, slots) == k

\* Lines 165-179: the read of files[k] settles (a failed read gives ''), the
\* content is cached and the task returns the node of the file.
ReadFile(k) ==
  /\ pc = "read"
  /\ k \in pendingReads
  /\ LET relativePath == relativeTo(files[k])
         content == readFile(remote, unreadable, relativePath)
         slot == resultSlot(k, readSlots)
     IN /\ fileContents' = [r \in DOMAIN fileContents \cup {relativePath} |->
                              IF r = relativePath THEN content ELSE fileContents[r]]
        /\ readSlots' = [x \in DOMAIN readSlots \cup {slot} |->
                           IF x = slot THEN buildNode(files[k], content) ELSE readSlots[x]]
  /\ pendingReads' = pendingReads \ {k}
  /\ UNCHANGED << pc, hostVars, request, response, resEnds, formVars, diskVars, thrown,
                  traversals, files, fileMap, filesByDirectory, nodes, edges,
                  connectionCounts, batchSize, i, tasks >>

\* Lines 163 and 183-187: Promise.all resolves with the nodes once every read
\* has settled.
BuildNodes ==
  /\ pc = "read"
  /\ pendingReads = {}
  /\ nodes' = readSlots
  /\ edges' = <<>>
  /\ connectionCounts' = <<>>
  /\ batchSize' = batchSizeFor(Len(files))
  /\ i' = 0
  /\ pc' = "loop"
  /\ UNCHANGED << hostVars, request, response, resEnds, formVars, diskVars, thrown,
                  traversals, files, fileMap, filesByDirectory, fileContents, pendingReads,
                  readSlots, tasks >>

\* Lines 190-199: batch.map starts every task of the batch, each running to
\* its first await.
StartBatch ==
  /\ pc = "loop"
  /\ i < Len(files)
  /\ tasks' = [k \in (i + 1)..Min2(i + batchSize, Len(files)) |->
                 runToAwait(files[k],
                            extractImports(fileContents[relativeTo(files[k])]),
                            fileMap, filesByDirectory)]
  /\ pc' = "batch"
  /\ UNCHANGED << hostVars, request, response, resEnds, formVars, diskVars, thrown,
                  traversals, files, fileMap, filesByDirectory, fileContents, pendingReads,
                  readSlots, nodes, edges, connectionCounts, batchSize, i >>

\* A task that remembers its resolution: it enters the target in the path
\* map under the lower-cased specifier.
ResumeTaskCaching(k) ==
  /\ pc = "batch"
  /\ k \in DOMAIN tasks
  /\ tasks[k].pc = "await"
  /\ LET relativePath == relativeTo(files[k])
         resolvedTarget == tasks[k].resolvedTarget
     IN IF shouldEmit(resolvedTarget, relativePath)
          THEN /\ edges' = Append(edges, [source |-> relativePath,
                                          target |-> resolvedTarget, value |-> 1])
               /\ connectionCounts' = bump(bump(connectionCounts, relativePath),
                                           resolvedTarget)
               /\ fileMap' = mapSet(fileMap, normalizePath(tasks[k].importPath),
                                    resolvedTarget)
          ELSE UNCHANGED << edges, connectionCounts, fileMap >>
  /\ tasks' = [tasks EXCEPT ![k] = runToAwait(files[k], tasks[k].rest, fileMap,
                                              filesByDirectory)]
  /\ UNCHANGED << pc, hostVars, request, response, resEnds, formVars, diskVars, thrown,
                  traversals, files, filesByDirectory, fileContents, pendingReads,
                  readSlots, nodes, batchSize, i >>

\* A task that keeps one edge per pair of files: it appends nothing when the
\* edge of the other direction is there.
ResumeTaskMerging(k) ==
  /\ pc = "batch"
  /\ k \in DOMAIN tasks
  /\ tasks[k].pc = "await"
  /\ LET relativePath == relativeTo(files[k])
         resolvedTarget == tasks[k].resolvedTarget
     IN IF /\ shouldEmit(resolvedTarget, relativePath)
           /\ ~\E e \in DOMAIN edges :
                 edges[e].source = resolvedTarget /\ edges[e].target = relativePath
          THEN /\ edges' = Append(edges, [source |-> relativePath,
                                          target |-> resolvedTarget, value |-> 1])
               /\ connectionCounts' = bump(bump(connectionCounts, relativePath),
                                           resolvedTarget)
          ELSE UNCHANGED << edges, connectionCounts >>
  /\ tasks' = [tasks EXCEPT ![k] = runToAwait(files[k], tasks[k].rest, fileMap,
                                              filesByDirectory)]
  /\ UNCHANGED << pc, hostVars, request, response, resEnds, formVars, diskVars, thrown,
                  traversals, files, fileMap, filesByDirectory, fileContents, pendingReads,
                  readSlots, nodes, batchSize, i >>

\* Lines 212-222 and the loop up to the next await: task k resumes with the
\* target its resolution produced.
ResumeTask(k) ==
  /\ pc = "batch"
  /\ k \in DOMAIN tasks
  /\ tasks[k].pc = "await"
  /\ LET relativePath == relativeTo(files[k])
         resolvedTarget == tasks[k].resolvedTarget
     IN IF shouldEmit(resolvedTarget, relativePath)
          THEN /\ edges' = Append(edges, [source |-> relativePath,
                                          target |-> resolvedTarget, value |-> 1])
               /\ connectionCounts' = bump(bump(connectionCounts, relativePath),
                                           resolvedTarget)
          ELSE UNCHANGED << edges, connectionCounts >>
  /\ tasks' = [tasks EXCEPT ![k] = runToAwait(files[k], tasks[k].rest, fileMap,
                                              filesByDirectory)]
  /\ UNCHANGED << pc, hostVars, request, response, resEnds, formVars, diskVars, thrown,
                  traversals, files, fileMap, filesByDirectory, fileContents, pendingReads,
                  readSlots, nodes, batchSize, i >>

\* A loop whose next batch starts at the last file of this one.
EndBatchOverlapping ==
  /\ pc = "batch"
  /\ \A k \in DOMAIN tasks : tasks[k].pc = "done"
  /\ i' = i + batchSize - 1
  /\ tasks' = <<>>
  /\ pc' = "loop"
  /\ UNCHANGED << hostVars, request, response, resEnds, formVars, diskVars, thrown,
                  traversals, files, fileMap, filesByDirectory, fileContents, pendingReads,
                  readSlots, nodes, edges, connectionCounts, batchSize >>

\* Promise.all of the batch resolves; i += batchSize.
EndBatch ==
  /\ pc = "batch"
  /\ \A k \in DOMAIN tasks : tasks[k].pc = "done"
  /\ i' = i + batchSize
  /\ tasks' = <<>>
  /\ pc' = "loop"
  /\ UNCHANGED << hostVars, request, response, resEnds, formVars, diskVars, thrown,
                  traversals, files, fileMap, filesByDirectory, fileContents, pendingReads,
                  readSlots, nodes, edges, connectionCounts, batchSize >>

\* Lines 247-254: the loop is over; every node gets its importance.
Score ==
  /\ pc = "loop"
  /\ i >= Len(files)
  /\ nodes' = [k \in DOMAIN nodes |->
                 [nodes[k] EXCEPT !.importance =
                    importanceOf(getFileTypeImportance(nodes[k].type),
                                 countOf(connectionCounts, nodes[k].id))]]
  /\ pc' = "finally"
  /\ UNCHANGED << hostVars, request, response, resEnds, formVars, diskVars, thrown,
                  traversals, files, fileMap, filesByDirectory, fileContents, pendingReads,
                  readSlots, edges, connectionCounts, batchSize, i, tasks >>

\* Line 257: fs.rm is awaited; a failure of the removal is logged and dropped.
Finally ==
  /\ pc = "finally"
  /\ rmCalls' = rmCalls + 1
  /\ \E removed \in BOOLEAN : dirExists' = ~removed
  /\ pc' = "settled"
  /\ UNCHANGED << hostVars, request, response, resEnds, formVars, remote, unreadable,
                  reversedListing, dirCreated, thrown, graphVars >>

\* A handler whose catch block does not end the response.
RespondOnlyOnSuccess ==
  /\ pc = "settled"
  /\ response' = IF thrown = "" THEN graphResponse([nodes |-> nodes, edges |-> edges])
                 ELSE response
  /\ resEnds' = IF thrown = "" THEN resEnds + 1 ELSE resEnds
  /\ pc' = "responded"
  /\ UNCHANGED << hostVars, request, formVars, diskVars, thrown, graphVars >>

\* Lines 32-47 of the middleware: analyzeRepository has settled and the
\* handler ends the response, with the graph or from its catch block.
Respond ==
  /\ pc = "settled"
  /\ response' = IF thrown = "" THEN graphResponse([nodes |-> nodes, edges |-> edges])
                 ELSE errorResponse(500, thrown)
  /\ resEnds' = resEnds + 1
  /\ pc' = "responded"
  /\ UNCHANGED << hostVars, request, formVars, diskVars, thrown, graphVars >>

\* A handleSubmit that clears the loading flag at the end of its try block.
ReceiveNoFinally ==
  /\ pc = "responded"
  /\ \E d \in FetchOutcomes(world, response) :
       /\ delivered' = d
       /\ LET message == receiveError(d) IN
            IF message = ""
              THEN /\ onAnalyzeCalls' = Append(onAnalyzeCalls,
                                               [nodes |-> d.body.nodes, edges |-> d.body.edges])
                   /\ isLoading' = FALSE
                   /\ UNCHANGED << formError, onErrorCalls >>
              ELSE /\ formError' = errorMessageOf(message)
                   /\ onErrorCalls' = Append(onErrorCalls, errorMessageOf(message))
                   /\ UNCHANGED << onAnalyzeCalls, isLoading >>
  /\ pc' = "done"
  /\ UNCHANGED << hostVars, request, response, resEnds, diskVars, thrown, graphVars >>

\* handleSubmit from the settling of fetch to its end; App passes onError.
Receive ==
  /\ pc = "responded"
  /\ \E d \in FetchOutcomes(world, response) :
       /\ delivered' = d
       /\ LET message == receiveError(d) IN
            IF message = ""
              THEN /\ onAnalyzeCalls' = Append(onAnalyzeCalls,
                                               [nodes |-> d.body.nodes, edges |-> d.body.edges])
                   /\ UNCHANGED << formError, onErrorCalls >>
              ELSE /\ formError' = errorMessageOf(message)
                   /\ onErrorCalls' = Append(onErrorCalls, errorMessageOf(message))
                   /\ UNCHANGED onAnalyzeCalls
  /\ isLoading' = FALSE
  /\ pc' = "done"
  /\ UNCHANGED << hostVars, request, response, resEnds, diskVars, thrown, graphVars >>

Next ==
  \/ Submit
  \/ HandleRequest
  \/ MkdirOk
  \/ MkdirFails
  \/ CloneOk
  \/ CloneFails
  \/ Discover
  \/ \E d \in DOMAIN traversals : Readdir(d)
  \/ \E d \in DOMAIN traversals : TraverseBatchDone(d)
  \/ BuildIndex
  \/ \E k \in pendingReads : ReadFile(k)
  \/ BuildNodes
  \/ StartBatch
  \/ \E k \in DOMAIN tasks : ResumeTask(k)
  \/ EndBatch
  \/ Score
  \/ Finally
  \/ Respond
  \/ Receive

\* ------------------------------------------- calls made side by side
\* The middleware starts analyzeRepository for every request, so several calls
\* share the server's clock and os.tmpdir().  Of each call only what touches
\* the temporary directory is followed: tempDir is the n of repo-<n>, 0 before
\* line 123, and disk maps the n of every existing directory to the call whose
\* clone it holds, 0 for an empty directory.
requestVars ==
  << pc, request, response, resEnds, formVars, diskVars, thrown, graphVars >>

\* The clock of the server advances by a millisecond.
Tick ==
  /\ now < MaxClock
  /\ now' = now + 1
  /\ UNCHANGED << world, calls, disk, requestVars >>

\* Lines 116-124: the call builds tempDir from Date.now() and awaits mkdir.
CallAnalyze(c) ==
  /\ calls[c].pc = "idle"
  /\ calls' = [calls EXCEPT ![c].pc = "mkdir", ![c].tempDir = now]
  /\ UNCHANGED << world, now, disk, requestVars >>

\* Line 124: mkdir with recursive: true creates the directory, and resolves
\* all the same when the directory is there.
MkdirDone(c) ==
  /\ calls[c].pc = "mkdir"
  /\ disk' = IF calls[c].tempDir \in DOMAIN disk THEN disk
             ELSE disk @@ (calls[c].tempDir :> 0)
  /\ calls' = [calls EXCEPT ![c].pc = "clone"]
  /\ UNCHANGED << world, now, requestVars >>

\* Line 129: git clone fills tempDir, creating it when it is missing; it
\* fails when the directory holds something, or for a reason of its own.
CloneDone(c) ==
  /\ calls[c].pc = "clone"
  /\ LET dir == calls[c].tempDir IN
       \E reachable \in BOOLEAN :
         IF reachable /\ (dir \in DOMAIN disk => disk[dir] = 0)
           THEN /\ disk' = [n \in DOMAIN disk \cup {dir} |-> IF n = dir THEN c ELSE disk[n]]
                /\ calls' = [calls EXCEPT ![c].pc = "list"]
           ELSE /\ calls' = [calls EXCEPT ![c].pc = "finally", ![c].outcome = "clone failed"]
                /\ disk' = disk
  /\ UNCHANGED << world, now, requestVars >>

\* Lines 132-254: the call lists and reads tempDir; a directory that is gone
\* is a failed readdir, which getAllFiles swallows, and gives a graph without
\* nodes.
ListDone(c) ==
  /\ calls[c].pc = "list"
  /\ LET dir == calls[c].tempDir
         saw == IF dir \notin DOMAIN disk THEN "missing"
                ELSE IF disk[dir] = c THEN "own" ELSE "other"
     IN calls' = [calls EXCEPT ![c].pc = "finally", ![c].outcome = saw]
  /\ UNCHANGED << world, now, disk, requestVars >>

\* Lines 255-258: fs.rm(tempDir, { recursive: true, force: true }).
RmDone(c) ==
  /\ calls[c].pc = "finally"
  /\ disk' = [n \in DOMAIN disk \ {calls[c].tempDir} |-> disk[n]]
  /\ calls' = [calls EXCEPT ![c].pc = "settled"]
  /\ UNCHANGED << world, now, requestVars >>

NextCalls ==
  \/ Tick
  \/ \E c \in Callers : CallAnalyze(c)
  \/ \E c \in Callers : MkdirDone(c)
  \/ \E c \in Callers : CloneDone(c)
  \/ \E c \in Callers : ListDone(c)
  \/ \E c \in Callers : RmDone(c)

InitCalls == Boot("calls")

\* The server with calls of analyzeRepository in flight side by side.
SpecCalls == InitCalls /\ [][NextCalls]_vars

\* A run on a repository of the basic kind.
Spec == Init /\ [][Next]_vars

\* A run on a repository with sibling directories, a bare specifier and
\* paths that cannot be read.
SpecIO == InitIO /\ [][Next]_vars

\* A run on a repository with more files than the smallest batch.
SpecWide == InitWide /\ [][Next]_vars

\* A run on a repository with more directories than one batch of traverse.
SpecFan == InitFan /\ [][Next]_vars

\* A run on a repository of names in mixed case, hidden and skipped entries
\* and specifiers of every filtered kind.
SpecNames == InitNames /\ [][Next]_vars

\* A run in which anything may come back to the form.
SpecFetch == InitFetch /\ [][Next]_vars

\* ======================================================================
\* Properties
\* ======================================================================
NodeIds == {nodes[k].id : k \in DOMAIN nodes}

\* analyzeRepository has settled by returning its graph; nodes, edges and
\* connectionCounts are the returned values.
Returned == pc = "settled" /\ thrown = ""

\* The relative specifiers a file's task resolves, from the statements of the
\* file as read.
relativeSpecsOf(rel) ==
  LET content == readFile(remote, unreadable, rel) IN
    {sp \in {content[j].spec : j \in DOMAIN content} : isRelativeSpecifier(sp)}

resolveFor(rel, sp) == fastResolveImport(absolute(rel), sp, tempDir, fileMap, filesByDirectory)

\* Which step of the resolver answers for specifier sp of file rel.
stepFor(rel, sp) ==
  LET cand == candidatePath(absolute(rel), sp, tempDir) IN
    IF ExactMatch(cand, fileMap) # <<>> THEN "exact"
    ELSE IF DirectoryIndex(cand, filesByDirectory) # <<>> THEN "index"
    ELSE IF BasenameFallback(sp, fileMap) # <<>> THEN "basename"
    ELSE "none"

edgeCount(s, t) == Cardinality({k \in DOMAIN edges : edges[k].source = s /\ edges[k].target = t})

outDegree(id) == Cardinality({k \in DOMAIN edges : edges[k].source = id})

inDegree(id) == Cardinality({k \in DOMAIN edges : edges[k].target = id})

RECURSIVE sumCounts(_)
sumCounts(ids) ==
  IF ids = {} THEN 0
  ELSE LET id == CHOOSE x \in ids : TRUE IN
    countOf(connectionCounts, id) + sumCounts(ids \ {id})

\* C1: in every state, and in the graph the middleware serializes, the source
\* and the target of every edge are ids of nodes of the node list, whichever
\* resolution step produced the target.
C1_ReferentialIntegrity ==
  /\ \A k \in DOMAIN edges : edges[k].source \in NodeIds /\ edges[k].target \in NodeIds
  /\ response.hasGraph =>
       \A k \in DOMAIN response.edges :
         /\ \E n \in DOMAIN response.nodes : response.nodes[n].id = response.edges[k].source
         /\ \E n \in DOMAIN response.nodes : response.nodes[n].id = response.edges[k].target

\* A graph reached the form whose edges come from the directory-index step and
\* from the basename fallback.
C1_Witness ==
  /\ pc = "done"
  /\ onAnalyzeCalls # <<>>
  /\ \E f, g \in NodeIds :
       /\ \E sp \in relativeSpecsOf(f) :
            stepFor(f, sp) = "index" /\ edgeCount(f, resolveFor(f, sp)) > 0
       /\ \E sp \in relativeSpecsOf(g) :
            stepFor(g, sp) = "basename" /\ edgeCount(g, resolveFor(g, sp)) > 0

\* C2: no edge has its source as its target, and a connection count exists
\* only for the endpoints of edges: a specifier that resolves to the importing
\* file itself appends no edge and increments no count.
C2_NoSelfEdge ==
  /\ \A k \in DOMAIN edges : edges[k].source # edges[k].target
  /\ \A id \in DOMAIN connectionCounts : outDegree(id) + inDegree(id) > 0

\* A file whose only relative specifier resolved to the file itself, in a
\* returned graph.
C2_Witness ==
  /\ Returned
  /\ \E f \in NodeIds :
       /\ relativeSpecsOf(f) # {}
       /\ \A sp \in relativeSpecsOf(f) : resolveFor(f, sp) = f
       /\ outDegree(f) = 0
       /\ f \notin DOMAIN connectionCounts

\* The candidate path is a directory of the clone.
isDirectory(cand) ==
  \E f \in DOMAIN remote : Len(f) > Len(cand) /\ SubSeq(f, 1, Len(cand)) = cand

\* The index files discovered directly inside directory cand, by position of
\* their extension in the priority list.
indexesInside(cand) ==
  {j \in 1..Len(extensions) : pathJoin(cand, indexName(extensions[j])) \in NodeIds}

firstOf(S) == CHOOSE j \in S : \A k \in S : j <= k

\* C3: when the candidate path of a relative specifier is a directory, no file
\* candidate+ext is indexed and the directory holds an index file, the resolver
\* returns the index file of first priority inside that directory and the
\* returned graph has the edge to it.
C3_DirectoryIndexFallback ==
  Returned =>
    \A f \in NodeIds : \A sp \in relativeSpecsOf(f) :
      LET cand == candidatePath(absolute(f), sp, tempDir) IN
        (isDirectory(cand) /\ ExactMatch(cand, fileMap) = <<>> /\ indexesInside(cand) # {}) =>
          LET target == pathJoin(cand, indexName(extensions[firstOf(indexesInside(cand))])) IN
            /\ resolveFor(f, sp) = target
            /\ target # f => edgeCount(f, target) > 0

\* C4: under every interleaving of the tasks of a batch, the connection count
\* of every node is the number of edges leaving it plus the number of edges
\* entering it, at every step and so once all batches have completed; the
\* counts then sum to twice the number of edges.
C4_NoLostUpdate ==
  /\ DOMAIN connectionCounts \subseteq NodeIds
  /\ \A id \in NodeIds : countOf(connectionCounts, id) = outDegree(id) + inDegree(id)
  /\ Returned => sumCounts(NodeIds) = 2 * Len(edges)

\* Two tasks of one batch were suspended together and the task of the later
\* file appended its edge first.
C4_Witness ==
  /\ Returned
  /\ Len(files) >= 2
  /\ Len(edges) >= 2
  /\ edges[1].source = relativeTo(files[2])
  /\ edges[2].source = relativeTo(files[1])
  /\ edges[1].target = edges[2].source

\* C5: a POST whose JSON body has no repoUrl, or a repoUrl that is not a
\* https://github.com/<owner>/<repo> URL, is answered with status 400.
C5_InvalidUrlIs400 ==
  (pc \in {"responded", "done"} /\ request.json
     /\ (falsy(request.repoUrl) \/ ~matchesGitHub(trim(request.repoUrl.text))))
    => response.status = 400

\* C6: once analyzeRepository has settled, by a graph or by an error, after
\* its temporary directory was created, the removal of the directory has been
\* awaited (exactly once).
C6_Teardown ==
  (pc \in {"settled", "responded", "done"} /\ dirCreated) => rmCalls = 1

\* The failure path: the clone failed after the directory was created, the
\* removal ran and the call settled with the error.
C6_Witness ==
  /\ pc = "settled"
  /\ dirCreated
  /\ thrown = "clone failed"
  /\ rmCalls = 1

\* C7 as stated: a file with k import statements that each resolve to the
\* same other file t yields exactly k edges to t.
C7_OneEdgePerStatement ==
  Returned =>
    \A s, t \in NodeIds :
      s # t =>
        edgeCount(s, t) =
          Cardinality({j \in DOMAIN remote[s] :
                         /\ isRelativeSpecifier(remote[s][j].spec)
                         /\ resolveFor(s, remote[s][j].spec) = t})

\* C7 as amended: edges are not deduplicated by (source, target), one edge per
\* DISTINCT specifier string: a file whose statements carry k distinct relative
\* specifiers that each resolve to the same other file t yields exactly k
\* edges to t, however many statements repeat a specifier, and each endpoint's
\* connection count is at least k.
C7_OneEdgePerSpecifier ==
  Returned =>
    \A s, t \in NodeIds :
      s # t =>
        LET k == Cardinality({sp \in relativeSpecsOf(s) : resolveFor(s, sp) = t}) IN
          /\ edgeCount(s, t) = k
          /\ countOf(connectionCounts, s) >= k
          /\ countOf(connectionCounts, t) >= k

\* Two distinct specifiers of one file resolved to the same other file and the
\* returned graph holds the edge twice.
C7_Witness ==
  /\ Returned
  /\ \E s, t \in NodeIds :
       /\ s # t
       /\ Cardinality({sp \in relativeSpecsOf(s) : resolveFor(s, sp) = t}) = 2
       /\ edgeCount(s, t) = 2

\* C8: when discovery finds no allow-listed file, the submit handler passes
\* the 'No relevant files found' error to onError and does not call onAnalyze;
\* onAnalyze never receives a graph without nodes.
C8_EmptyResult ==
  /\ \A c \in DOMAIN onAnalyzeCalls : Len(onAnalyzeCalls[c].nodes) > 0
  /\ (pc = "done" /\ response.hasGraph /\ files = <<>>) =>
       /\ onAnalyzeCalls = <<>>
       /\ onErrorCalls = << errorMessageOf("No relevant files found in the repository") >>

\* A cloned repository that holds a file, none of them allow-listed, was
\* answered with an empty graph and the form reported the error.
C8_Witness ==
  /\ pc = "done"
  /\ response.status = 200
  /\ response.hasGraph
  /\ files = <<>>
  /\ logoPng \in DOMAIN remote
  /\ Len(onErrorCalls) = 1

\* C9: before the last batch has finished every node keeps its initial
\* importance; in a returned graph the importance of every node is the base
\* score of its type plus half its final connection count (here in half
\* units), and a file without import statements has no outgoing edge and the
\* base score plus half the number of its incoming edges.
C9_Importance ==
  /\ pc \in {"loop", "batch"} => \A k \in DOMAIN nodes : nodes[k].importance = 2
  /\ Returned =>
       \A k \in DOMAIN nodes :
         LET n == nodes[k]
             base == getFileTypeImportance(n.type) IN
           /\ n.importance = 2 * base + countOf(connectionCounts, n.id)
           /\ n.importance = 2 * base + outDegree(n.id) + inDegree(n.id)
           /\ n.type = "ts" => n.importance = 14 + outDegree(n.id) + inDegree(n.id)
           /\ remote[n.id] = <<>> =>
                (outDegree(n.id) = 0 /\ n.importance = 2 * base + inDegree(n.id))
  /\ response.hasGraph => response.nodes = nodes

\* A returned .ts file without statements that another file imports once:
\* importance 7 + 0.5.
C9_Witness ==
  /\ Returned
  /\ \E k \in DOMAIN nodes :
       /\ remote[nodes[k].id] = <<>>
       /\ nodes[k].type = "ts"
       /\ inDegree(nodes[k].id) = 1
       /\ nodes[k].importance = 15

\* The positions in the priority list of the extensions with which the
\* candidate of specifier sp of file f is a key of the path map.
exactHits(f, sp) ==
  {j \in 1..Len(extensions) :
     mapHas(fileMap, normalizePath(appendExt(candidatePath(absolute(f), sp, tempDir),
                                             extensions[j])))}

\* C10: when the candidate path is indexed with several extensions of the
\* priority list, the resolver returns the file of the extension that comes
\* first in the list, and the returned graph has the edge to it; with b.ts and
\* b.js both discovered, './b' written in a root file resolves to b.ts.
C10_ExtensionPriority ==
  Returned =>
    /\ \A f \in NodeIds : \A sp \in relativeSpecsOf(f) :
         exactHits(f, sp) # {} =>
           LET ext == extensions[firstOf(exactHits(f, sp))]
               target == mapGet(fileMap, normalizePath(
                           appendExt(candidatePath(absolute(f), sp, tempDir), ext))) IN
             /\ resolveFor(f, sp) = target
             /\ toLowerCase(extname(basename(target))) = ext
             /\ target # f => edgeCount(f, target) > 0
    /\ (bTs \in NodeIds /\ bJs \in NodeIds) =>
         \A f \in NodeIds :
           (Len(f) = 1 /\ dotB \in relativeSpecsOf(f)) => resolveFor(f, dotB) = bTs

\* b.ts and b.js are both discovered, b.js imports './b' and the returned
\* graph has the edge from b.js to b.ts.
C10_Witness ==
  /\ Returned
  /\ bTs \in NodeIds
  /\ bJs \in NodeIds
  /\ dotB \in relativeSpecsOf(bJs)
  /\ Cardinality(exactHits(bJs, dotB)) = 2
  /\ edgeCount(bJs, bTs) = 1

\* The specifiers extractImports finds in file rel as read.
specsOf(rel) ==
  LET content == readFile(remote, unreadable, rel) IN
    {content[j].spec : j \in DOMAIN content}

\* C11: the bare specifier react is never awaited on the resolver, and in a
\* returned graph the edges leaving a file are those of its other specifiers:
\* react produces no edge, also when react.ts is discovered and the basename
\* fallback would return it.
C11_BareSpecifier ==
  /\ \A k \in DOMAIN tasks : tasks[k].pc = "await" => tasks[k].importPath # bareReact
  /\ Returned =>
       \A f \in NodeIds :
         outDegree(f) =
           Cardinality({sp \in specsOf(f) \ {bareReact} : shouldEmit(resolveFor(f, sp), f)})

\* A returned graph with react.ts among its nodes and a file that imports
\* react and nothing else: the fallback would answer react.ts, and the file
\* has no edge.
C11_Witness ==
  /\ Returned
  /\ reactTs \in NodeIds
  /\ BasenameFallback(bareReact, fileMap) = reactTs
  /\ \E f \in NodeIds :
       /\ f # reactTs
       /\ specsOf(f) = {bareReact}
       /\ outDegree(f) = 0
       /\ edges = <<>>

\* Some step of the running handler can be taken: an awaited operation can
\* settle or a continuation can run.
handlerCanStep ==
  CASE pc = "loop" -> i < Len(files) \/ i >= Len(files)
    [] pc = "batch" ->
         \/ \A k \in DOMAIN tasks : tasks[k].pc = "done"
         \/ \E k \in DOMAIN tasks : tasks[k].pc = "await"
    [] pc = "traverse" ->
         \E d \in DOMAIN traversals :
           \/ traversals[d].pc = "readdir"
           \/ \A c \in enteredBy(remote, d, batchOf(traversals[d].entries, traversals[d].i)) :
                c \notin DOMAIN traversals
    [] pc = "read" -> pendingReads = {} \/ \E k \in DOMAIN files : k \in pendingReads
    [] OTHER ->
         ENABLED (HandleRequest \/ MkdirOk \/ CloneFails \/ Discover \/ BuildIndex
                    \/ Finally \/ Respond)

\* C12: a POST whose body was received and carries a repoUrl is answered
\* exactly once: res.end is never called twice; while the handler runs it has
\* not been called and some step of the handler can be taken; once the handler
\* is over it has been called once, with status 200 and the graph when
\* analyzeRepository returned and with status 500 and the message of the error
\* when it threw.
C12_OneResponse ==
  (request.json /\ ~falsy(request.repoUrl)) =>
    /\ resEnds <= 1
    /\ pc \notin {"idle", "responded", "done"} => (resEnds = 0 /\ handlerCanStep)
    /\ pc \in {"responded", "done"} =>
         /\ resEnds = 1
         /\ IF thrown = ""
              THEN /\ response.status = 200
                   /\ response.hasGraph
                   /\ response.nodes = nodes
                   /\ response.edges = edges
              ELSE /\ response.status = 500
                   /\ ~response.hasGraph
                   /\ response.error = thrown

\* analyzeRepository threw after the clone and the request was answered once,
\* with status 500 and the message.
C12_Witness ==
  /\ pc = "responded"
  /\ request.repoUrl.text = validUrl
  /\ thrown = "clone failed"
  /\ resEnds = 1
  /\ response.status = 500
  /\ response.error = "clone failed"

\* File f lies in a directory whose listing fails.
inUnreadableSubtree(f) == \E n \in 0..(Len(f) - 1) : SubSeq(f, 1, n) \in unreadable

\* C13: failed reads and failed listings are never fatal: analyzeRepository
\* fails only with an error raised before discovery started, so after a clone
\* it returns a graph; in that graph every allow-listed file outside the
\* subtrees that cannot be listed is a node, and every node whose file cannot
\* be read has the line count of an empty file and no outgoing edge.
C13_PartialFailures ==
  /\ thrown # "" => (files = <<>> /\ traversals = <<>> /\ pc \notin {"traverse", "read", "batch"})
  /\ Returned =>
       /\ \A f \in DOMAIN remote :
            (isDiscovered(f) /\ ~inUnreadableSubtree(f)) => f \in NodeIds
       /\ \A k \in DOMAIN nodes :
            nodes[k].id \in unreadable => (nodes[k].lines = 1 /\ outDegree(nodes[k].id) = 0)

\* A graph was returned for a clone with a directory that cannot be listed
\* and, beside it, a file that cannot be read and holds a relative import: the
\* file is the only node and has no edge.
C13_Witness ==
  /\ Returned
  /\ unreadable = {<< <<"x">> >>, yDTs}
  /\ xCTs \in DOMAIN remote
  /\ yDTs \in DOMAIN remote
  /\ \E j \in DOMAIN remote[yDTs] : remote[yDTs][j].spec = dotA
  /\ NodeIds = {yDTs}
  /\ edges = <<>>

\* The files a traversal of directory d pushes when the traversal of each
\* subdirectory returns before the listing of the next one settles.
RECURSIVE sequentialTraverse(_), sequentialTraverseAll(_)
sequentialTraverse(d) ==
  IF d \in unreadable THEN <<>>
  ELSE LET entries == readdir(remote, reversedListing, d)
           entered == SelectSeq(entries, LAMBDA n : d \o <<n>> \in enteredBy(remote, d, entries))
       IN pushedBy(remote, d, entries)
            \o sequentialTraverseAll([k \in DOMAIN entered |-> d \o <<entered[k]>>])

sequentialTraverseAll(ds) ==
  IF ds = <<>> THEN <<>> ELSE sequentialTraverse(Head(ds)) \o sequentialTraverseAll(Tail(ds))

\* C14: for a given tree, listing order and set of unreadable paths, the node
\* ids of the returned graph come in one order, whichever way the listings of
\* sibling directories complete: the order of the traversal that finishes
\* each subdirectory before the next.
C14_StableNodeOrder ==
  Returned =>
    [k \in DOMAIN nodes |-> nodes[k].id] =
      [k \in DOMAIN sequentialTraverse(<<>>) |-> relativeTo(sequentialTraverse(<<>>)[k])]

\* The files getAllFiles is to return: the allow-listed files outside the
\* subtrees that cannot be listed.
discoverable == {absolute(f) : f \in {g \in DOMAIN remote : isDiscovered(g) /\ ~inUnreadableSubtree(g)}}

\* C16: for a given tree and set of unreadable directories, every interleaving
\* of the traversal returns the same set of paths, each once: while the
\* traversal runs files holds paths of that set without repetition, and what
\* getAllFiles returns holds each path of the set exactly once.
C16_DiscoveryDeterministic ==
  /\ \A j, k \in DOMAIN files : files[j] = files[k] => j = k
  /\ Range(files) \subseteq discoverable
  /\ (thrown = "" /\ pc \in {"index", "read", "loop", "batch", "finally", "settled"}) =>
       (Range(files) = discoverable /\ Len(files) = Cardinality(discoverable))

\* The listing of y settled before the listing of x, which the file system
\* lists first: getAllFiles returned y/d.ts before x/c.ts, the same two paths
\* as the other way round.
C16_Witness ==
  /\ pc = "index"
  /\ ~reversedListing
  /\ unreadable = {}
  /\ DOMAIN remote = {xCTs, yDTs}
  /\ files = <<absolute(yDTs), absolute(xCTs)>>

\* C15: whatever the order in which the reads settle, the value of the read
\* of files[k] is the node of files[k] at position k, and the node list of the
\* analysis has one node per discovered file, in the order of files, with
\* pairwise distinct ids.
C15_NodesFollowFiles ==
  /\ pc = "read" =>
       /\ DOMAIN readSlots = DOMAIN files \ pendingReads
       /\ \A k \in DOMAIN readSlots : readSlots[k].id = relativeTo(files[k])
  /\ (thrown = "" /\ pc \in {"loop", "batch", "finally", "settled"}) =>
       /\ Len(nodes) = Len(files)
       /\ \A k \in DOMAIN nodes : nodes[k].id = relativeTo(files[k])
       /\ \A j, k \in DOMAIN nodes : nodes[j].id = nodes[k].id => j = k

\* The read of the second file has settled while the read of the first is
\* still in flight.
C15_Witness ==
  /\ pc = "read"
  /\ Len(files) = 2
  /\ pendingReads = {1}
  /\ DOMAIN readSlots = {2}
  /\ readSlots[2].id = relativeTo(files[2])

\* The patterns of IMPORT_PATTERNS that match statement stmt.
matchingPatterns(stmt) == {p \in 1..NumPatterns : patternCapture(p, stmt) # <<>>}

importEachOther(s, t) ==
  /\ s # t
  /\ Cardinality(relativeSpecsOf(s)) = 1
  /\ Cardinality(relativeSpecsOf(t)) = 1
  /\ \A sp \in relativeSpecsOf(s) : resolveFor(s, sp) = t
  /\ \A sp \in relativeSpecsOf(t) : resolveFor(t, sp) = s
  /\ \A u \in NodeIds \ {s, t} : \A sp \in relativeSpecsOf(u) : resolveFor(u, sp) \notin {s, t}

\* C18: two files that import each other, each by one relative specifier,
\* have in the returned graph exactly the two edges between them, one in each
\* direction, and a connection count of 2 each.
C18_MutualImports ==
  Returned =>
    \A s, t \in NodeIds :
      importEachOther(s, t) =>
        /\ edgeCount(s, t) = 1
        /\ edgeCount(t, s) = 1
        /\ outDegree(s) = 1 /\ inDegree(s) = 1
        /\ outDegree(t) = 1 /\ inDegree(t) = 1
        /\ countOf(connectionCounts, s) = 2
        /\ countOf(connectionCounts, t) = 2

\* f01.ts and f02.ts import each other; the task of f02.ts appended its edge
\* first and the returned graph has both edges.
C18_Witness ==
  /\ Returned
  /\ importEachOther(<<wideNames[1]>>, <<wideNames[2]>>)
  /\ Len(edges) = 2
  /\ edges[1].source = <<wideNames[2]>>
  /\ edges[2].source = <<wideNames[1]>>
  /\ countOf(connectionCounts, <<wideNames[1]>>) = 2

\* C19: a relative specifier whose candidate is indexed with no extension of
\* the list, whose candidate is not a directory holding an index file, and
\* whose basename the fallback finds nowhere, resolves to nothing and adds
\* no edge, whatever files sit beside the importing file.
C19_ResolutionMiss ==
  Returned =>
    \A f \in NodeIds : \A sp \in relativeSpecsOf(f) :
      LET cand == candidatePath(absolute(f), sp, tempDir) IN
        ( /\ exactHits(f, sp) = {}
          /\ ~(isDirectory(cand) /\ indexesInside(cand) # {})
          /\ BasenameFallback(sp, fileMap) = <<>> ) =>
            /\ resolveFor(f, sp) = <<>>
            /\ relativeSpecsOf(f) = {sp} => outDegree(f) = 0

\* The files whose read is in flight or whose task of the running batch has
\* not finished.
inFlight ==
  Cardinality(pendingReads) + Cardinality({k \in DOMAIN tasks : tasks[k].pc = "await"})

\* C20: at every moment of analyzeRepository the number of files being read
\* or processed is at most the batch size of the discovered file list, while
\* the nodes are built as well as while the imports are resolved.
C20_PeakConcurrency ==
  pc \in {"read", "loop", "batch"} => inFlight <= batchSizeFor(Len(files))

\* C21: at every moment of getAllFiles at most traverseBatchSize directory
\* listings are in flight, whatever the shape of the tree.
C21_ListingsBounded == Cardinality(pendingListings) <= traverseBatchSize

\* specifier.startsWith('http')
beginsWithHttp(sp) == Len(sp) > 0 /\ Len(sp[1]) > 0 /\ sp[1][1] \in {"http:", "https:"}

\* specifier.includes('node_modules')
mentionsNodeModules(sp) == \E k \in DOMAIN sp : \E j \in DOMAIN sp[k] : sp[k][j] = "node_modules"

\* C22: no specifier that extractImports returns for the content of a file
\* begins with http, contains node_modules or is empty, whichever pattern
\* captured it, the patterns whose capture holds the quotes included.
C22_FilteredSpecifiers ==
  \A r \in DOMAIN fileContents :
    LET imports == extractImports(fileContents[r]) IN
      \A k \in DOMAIN imports :
        /\ imports[k] # <<>>
        /\ ~beginsWithHttp(imports[k])
        /\ ~mentionsNodeModules(imports[k])

\* The extension of a path, lower-cased and without its dot, 'other' when the
\* file has none.
loweredType(rel) ==
  LET t == slice1(toLowerCase(extname(LastOf(rel)))) IN IF t = "" THEN "other" ELSE t

\* C23: the type of every node is the lower-cased extension of its file
\* without the dot, 'other' when there is none, and the importance of a
\* returned node starts from the base importance of that lower-cased type: a
\* file Main.TS has type ts and base importance 7.
C23_LowerCasedType ==
  \A k \in DOMAIN nodes :
    /\ nodes[k].type = loweredType(nodes[k].id)
    /\ Returned =>
         nodes[k].importance >= 2 * getFileTypeImportance(loweredType(nodes[k].id))

\* A name that starts with a dot and is not the environment file's name.
dotNameOtherThanEnv(name) == Len(name) > 0 /\ name[1] \in DotAtoms /\ name # <<".env">>

\* The files getAllFiles is to return for the cloned tree: allow-listed
\* extension in any letter case, no skipped directory and no dot name other
\* than .env on the path, every directory on the path readable.
expectedFiles ==
  {f \in DOMAIN remote :
     /\ toLowerCase(extname(LastOf(f))) \in relevantExtensions
     /\ \A k \in 1..(Len(f) - 1) : f[k] \notin skipDirs
     /\ \A k \in 1..Len(f) : ~dotNameOtherThanEnv(f[k])
     /\ \A n \in 0..(Len(f) - 1) : SubSeq(f, 1, n) \notin unreadable}

\* C24: what getAllFiles returns is exactly the set of files of the tree that
\* lie under readable directories, carry an allow-listed extension in any
\* letter case, and have on their path no skipped directory and no name
\* starting with a dot other than .env; a file with another extension is never
\* collected.
C24_ExactDiscovery ==
  /\ \A k \in DOMAIN files :
        toLowerCase(extname(LastOf(files[k]))) \in relevantExtensions
  /\ pc = "index" => {relativeTo(files[k]) : k \in DOMAIN files} = expectedFiles

\* getAllFiles went into the directory .env and collected its file, and did
\* not go into .git.
C24_Witness ==
  /\ pc = "index"
  /\ unreadable = {}
  /\ DOMAIN remote = {envDirTs, gitDirTs}
  /\ files = <<absolute(envDirTs)>>

\* A node without the field that the scoring writes.
unscored(node) == [node EXCEPT !.importance = 1]

\* What a step taken between the end of the node construction and the return
\* of the graph does to the path map, the directory map and the node list.
indexFrozenStep ==
  pc \in {"loop", "batch", "finally"} =>
    /\ fileMap' = fileMap
    /\ filesByDirectory' = filesByDirectory
    /\ DOMAIN nodes' = DOMAIN nodes
    /\ \A k \in DOMAIN nodes : unscored(nodes'[k]) = unscored(nodes[k])
    /\ nodes' # nodes => (pc = "loop" /\ i >= Len(files) /\ tasks = <<>>)
    /\ pc' = "batch" =>
          /\ fileMap = buildFileMap(files)
          /\ filesByDirectory = buildFilesByDirectory(files)
          /\ DOMAIN nodes = DOMAIN files
          /\ \A k \in DOMAIN files : nodes[k].id = relativeTo(files[k])

\* C25: the path map, the directory map and the node list are complete when
\* the first batch starts, and from then to the return of the graph no step
\* changes the two maps or any field of a node other than importance;
\* importance is written only once the last batch is over.
C25_IndexFrozen == [][indexFrozenStep]_vars

\* The graph of eleven files was returned after two batches whose tasks added
\* edges, with the path map still holding one entry per file.
C25_Witness ==
  /\ Returned
  /\ Len(files) = 11
  /\ i = 20
  /\ Len(edges) = 2
  /\ fileMap = buildFileMap(files)
  /\ Len(fileMap) = 11
  /\ \E k \in DOMAIN nodes : nodes[k].importance # 1

\* The position in files of the file with relative path id.
positionOf(id) == CHOOSE k \in DOMAIN files : relativeTo(files[k]) = id

\* The number of the batch that processes files[k].
batchNumber(k) == (k - 1) \div batchSize

\* The tasks in flight are the files of one batch, batches start at multiples
\* of batchSize, and the edges come in the order of the batches of their
\* sources.
batchesPartition ==
  /\ pc = "batch" =>
        /\ i % batchSize = 0
        /\ DOMAIN tasks = (i + 1)..Min2(i + batchSize, Len(files))
  /\ pc = "loop" => (i % batchSize = 0 /\ tasks = <<>>)
  /\ pc \in {"loop", "batch", "finally"} \/ Returned =>
        /\ \A e \in DOMAIN edges :
              /\ \E k \in DOMAIN files : relativeTo(files[k]) = edges[e].source
              /\ pc \in {"loop", "batch"} =>
                    batchNumber(positionOf(edges[e].source)) <= i \div batchSize
        /\ \A d, e \in DOMAIN edges :
              d < e => batchNumber(positionOf(edges[d].source))
                         <= batchNumber(positionOf(edges[e].source))

\* A batch ends only when each of its tasks has finished, and nothing touches
\* the edges or the counts outside a batch.
batchStep ==
  /\ (pc = "batch" /\ pc' # "batch") => \A k \in DOMAIN tasks : tasks[k].pc = "done"
  /\ (pc \in {"loop", "finally", "settled", "responded"} /\ thrown = "") =>
        (edges' = edges /\ connectionCounts' = connectionCounts)

\* C26: batches run one after another and partition the file list: the tasks
\* in flight are always the files of one batch, a batch ends only when all of
\* its tasks have finished, the edges of a batch precede those of the next,
\* and nothing changes an edge or a count once the last batch is over.
C26_BatchesInSequence == []batchesPartition /\ [][batchStep]_vars

\* Eleven files, listed in reverse, so that f02 is in the first batch and f01
\* alone in the second: the edge of f02 precedes the edge of f01.
C26_Witness ==
  /\ Returned
  /\ reversedListing
  /\ Len(files) = 11
  /\ batchSize = 10
  /\ i = 20
  /\ Len(edges) = 2
  /\ edges[1].source = <<wideNames[2]>>
  /\ edges[2].source = <<wideNames[1]>>
  /\ batchNumber(positionOf(<<wideNames[2]>>)) = 0
  /\ batchNumber(positionOf(<<wideNames[1]>>)) = 1

\* C28: a relative specifier that carries the extension of its target
\* resolves to the target: when the candidate path is itself a discovered
\* file, the resolver returns that file and the returned graph has the edge to
\* it ('./b.ts' written beside b.ts gives b.ts, never index.ts).
C28_ExtensionInSpecifier ==
  Returned =>
    \A f \in NodeIds : \A sp \in relativeSpecsOf(f) :
      LET cand == candidatePath(absolute(f), sp, tempDir) IN
        (cand \in NodeIds /\ extname(LastOf(cand)) # "") =>
          /\ resolveFor(f, sp) = cand
          /\ cand # f => edgeCount(f, cand) > 0

\* C29: once the path map is built, it maps the lower-cased path of every
\* discovered file to that file and has one entry per file, also when two
\* files differ only in letter case; an exact match on the lower-cased path of
\* a file then answers that file.
C29_IndexHoldsEveryFile ==
  (pc \in {"read", "loop", "batch"} \/ Returned) =>
    /\ Len(fileMap) = Len(files)
    /\ \A k \in DOMAIN files :
         LET relativePath == relativeTo(files[k]) IN
           /\ mapHas(fileMap, normalizePath(relativePath))
           /\ mapGet(fileMap, normalizePath(relativePath)) = relativePath

\* The graph of the body handleSubmit received.
deliveredGraph == [nodes |-> delivered.body.nodes, edges |-> delivered.body.edges]

\* handleSubmit received a success status with nodes and edges, at least one
\* node.
deliveredValidGraph ==
  /\ delivered.rejected = ""
  /\ responseOk(delivered.body)
  /\ delivered.body.hasGraph
  /\ Len(delivered.body.nodes) > 0

\* C30: whatever came back from fetch, when handleSubmit has settled the
\* loading flag is off and exactly one of onAnalyze and onError has been
\* called, once: onAnalyze with the graph when the response was ok and carried
\* nodes and edges with at least one node, onError in every other case; and
\* while the submission is under way the loading flag is on and neither has
\* been called.
C30_OneCallback ==
  /\ pc = "done" =>
        /\ ~isLoading
        /\ Len(onAnalyzeCalls) + Len(onErrorCalls) = 1
        /\ deliveredValidGraph => onAnalyzeCalls = << deliveredGraph >>
        /\ ~deliveredValidGraph =>
              (onErrorCalls = << errorMessageOf(receiveError(delivered)) >>
                 /\ formError = onErrorCalls[1])
  /\ pc \notin {"idle", "done"} =>
        (isLoading /\ onAnalyzeCalls = <<>> /\ onErrorCalls = <<>>)

\* The middleware answered with a graph, the fetch failed all the same:
\* onError was called with the message of the failure and the flag is off.
C30_Witness ==
  /\ pc = "done"
  /\ response.hasGraph
  /\ Len(response.nodes) = 2
  /\ delivered = networkError
  /\ ~isLoading
  /\ onAnalyzeCalls = <<>>
  /\ onErrorCalls = << errorMessageOf("Failed to fetch") >>

\* The call has its temporary directory and has not removed it yet.
usesDirectory(c) == calls[c].pc \in {"mkdir", "clone", "list", "finally"}

\* C27: two calls of analyzeRepository in flight at the same time never have
\* the same temporary directory, so a call that is listing and reading its
\* directory finds it there with its own clone: the teardown of another call
\* has not removed it.
C27_PrivateDirectory ==
  /\ \A c, d \in Callers :
        (c # d /\ usesDirectory(c) /\ usesDirectory(d)) => calls[c].tempDir # calls[d].tempDir
  /\ \A c \in Callers :
        calls[c].pc = "list" => (calls[c].tempDir \in DOMAIN disk /\ disk[calls[c].tempDir] = c)

====
